---- MODULE Spec2Model ----
(***************************************************************************)
(* SerialManager of BoBapp_python/serial_manager.py: the connection        *)
(* lifecycle, the Reader thread, the fault path, the Auto-Reconnect Loop   *)
(* and the Sync Engine, as a state machine.                                *)
(*                                                                         *)
(* Threads: the application thread (App), the Auto-Reconnect Loop threads  *)
(* (Loops) and the Reader threads (Readers).  The code takes no lock, so   *)
(* every method is a sequence of steps, one per access to the shared       *)
(* attributes that another thread can observe; pc[t] is thread t's         *)
(* position.                                                               *)
(***************************************************************************)
EXTENDS Integers, Sequences, FiniteSets, TLC

\* ---- bounds ----
MaxHandles == 2      \* serial.Serial objects successfully opened in one run
MaxLoops == 2        \* Auto-Reconnect Loop threads alive at the same time
MaxNotes == 2        \* CONNECTION_CHANGED calls kept in the record
MaxModes == 3        \* config['num_modes'] of the configurations that are synced
MaxFrames == 3       \* BTN_PRESS / SLIDER_CHANGE / MODE_CHANGE frames read in one run
MaxBytes == 4        \* bytes followed one by one through the reads of a run
MaxSent == 1         \* send_button_config calls of the application outside a sync

\* ---- program constants ----
max_errors == 5

NoHandle == 0
NoConfig == [modes |-> 0, names |-> <<>>, items |-> <<>>, sliders |-> <<>>]
NoPort == "None"
Ports == {"COM3"}

App == 0
Loops == 11..(10 + MaxLoops)
Readers == 21..(20 + MaxHandles)
Threads == {App} \cup Loops \cup Readers
Handles == 1..MaxHandles

VARIABLES
    port,                \* self.port: a handle, or NoHandle
    open,                \* the handles whose is_open is true
    nextHandle,          \* the next serial.Serial object to be created
    is_connected,
    running,
    read_thread,         \* self.read_thread: a Reader, or 0
    ready_event,
    ready_received,
    ready_handled,
    reconnect_running,
    preferred_port,
    reconnect_thread,    \* self.reconnect_thread: a Loop, or 0
    notifications,       \* the latest calls of callbacks['CONNECTION_CHANGED'], in order
    rx_log,              \* what the Dispatcher printed for the last frame
    handled,             \* the calls of the BTN_PRESS / SLIDER_CHANGE / MODE_CHANGE callbacks
    buffer,              \* the Reader's local buffer: the lines read and not yet dispatched
    arrived,             \* the BTN_PRESS / SLIDER_CHANGE / MODE_CHANGE frames read from the port, in order
    last_message_time,   \* 0, or which assignment of time.time() wrote it: 1 connect(), 2 the Dispatcher
    rx_bytes,            \* the bytes port.read returned so far, where reads are followed byte by byte
    rx_text,             \* the Reader's local buffer as text: the characters behind the last newline
    rx_lines,            \* the lines split off rx_text for _handle_incoming_message, in order
    ret,                 \* the value the application's last call returned
    pc,                  \* position of every thread
    consecutive_errors,  \* the Reader's local counter
    is_syncing,
    cfg,                 \* sync_all_configs' arguments: the configuration and slider_apps
    sent,                \* the calls of send_message that carry a frame: frame and result, in order
    count,               \* sync_all_configs' local count
    step,                \* sync_all_configs' position inside its current loop
    synced               \* what sync_all_configs returned; -1 while it has not returned

vars == <<port, open, nextHandle, is_connected, running, read_thread,
          ready_event, ready_received, ready_handled,
          reconnect_running, preferred_port, reconnect_thread,
          notifications, rx_log, handled, buffer, arrived, last_message_time,
          rx_bytes, rx_text, rx_lines,
          ret, pc, consecutive_errors,
          is_syncing, cfg, sent, count, step, synced>>

readyVars == <<ready_event, ready_received, ready_handled>>
reconVars == <<reconnect_running, preferred_port, reconnect_thread>>
byteVars == <<rx_bytes, rx_text, rx_lines>>
rxVars == <<rx_log, handled, buffer, arrived, last_message_time, byteVars>>
syncVars == <<is_syncing, cfg, sent, count, step, synced>>

\* ---- helpers ----
Min(S) == CHOOSE x \in S : \A y \in S : x <= y

PortOpen == port # NoHandle /\ port \in open

\* where a thread continues when the method it called returns
Return(t) == IF t = App THEN "idle" ELSE IF t \in Loops THEN "rl_loop" ELSE "off"

Goto(t, l) == pc' = [pc EXCEPT ![t] = l]

\* callbacks['CONNECTION_CHANGED'](b): the call is recorded; the record keeps
\* the MaxNotes most recent calls
Notified(b) ==
    LET all == Append(notifications, b)
    IN  IF Len(all) > MaxNotes THEN Tail(all) ELSE all

Init ==
    /\ port = NoHandle
    /\ open = {}
    /\ nextHandle = 1
    /\ is_connected = FALSE
    /\ running = FALSE
    /\ read_thread = 0
    /\ ready_event = FALSE
    /\ ready_received = FALSE
    /\ ready_handled = FALSE
    /\ reconnect_running = FALSE
    /\ preferred_port = NoPort
    /\ reconnect_thread = 0
    /\ notifications = <<>>
    /\ rx_log = "none"
    /\ handled = <<>>
    /\ buffer = [r \in Readers |-> <<>>]
    /\ arrived = <<>>
    /\ last_message_time = 0
    /\ rx_bytes = <<>>
    /\ rx_text = [r \in Readers |-> <<>>]
    /\ rx_lines = <<>>
    /\ ret = "none"
    /\ pc = [t \in Threads |-> IF t = App THEN "idle" ELSE "off"]
    /\ consecutive_errors = [r \in Readers |-> 0]
    /\ is_syncing = FALSE
    /\ cfg = NoConfig
    /\ sent = <<>>
    /\ count = 0
    /\ step = 0
    /\ synced = -1

\* ------------------------------------------------------------------------
\* send_message: the outcomes of one call.  "notconn" is the early return,
\* "ok" a completed write, "raise" an exception of port.write, which the
\* method answers by is_connected = False.
SendOutcomes == IF ~is_connected \/ ~PortOpen THEN {"notconn"} ELSE {"ok", "raise"}

SendConnected(o) == IF o = "raise" THEN FALSE ELSE is_connected

\* ------------------------------------------------------------------------
\* connect(port_name), called by the application or by the reconnect loop

\* lines 118-120 and, when serial.Serial raises, the except branch 145-148
\* connect() with line 121 moved before line 120 and no reset in the except
\* branch: a failed open leaves is_connected true
ConnectOpenFlagFirst(t, p) ==
    /\ preferred_port' = p
    /\ \/ /\ nextHandle <= MaxHandles
          /\ port' = nextHandle
          /\ open' = open \cup {nextHandle}
          /\ nextHandle' = nextHandle + 1
          /\ Goto(t, "c_flags")
          /\ UNCHANGED <<is_connected, ret>>
       \/ /\ is_connected' = TRUE
          /\ Goto(t, Return(t))
          /\ ret' = IF t = App THEN "False" ELSE ret
          /\ UNCHANGED <<port, open, nextHandle>>
    /\ UNCHANGED <<running, read_thread, readyVars, reconnect_running, reconnect_thread,
                   notifications, rxVars, consecutive_errors, syncVars>>

ConnectOpen(t, p) ==
    /\ preferred_port' = p
    /\ \/ /\ nextHandle <= MaxHandles
          /\ port' = nextHandle
          /\ open' = open \cup {nextHandle}
          /\ nextHandle' = nextHandle + 1
          /\ Goto(t, "c_flags")
          /\ UNCHANGED <<is_connected, ret>>
       \/ /\ is_connected' = FALSE
          /\ Goto(t, Return(t))
          /\ ret' = IF t = App THEN "False" ELSE ret
          /\ UNCHANGED <<port, open, nextHandle>>
    /\ UNCHANGED <<running, read_thread, readyVars, reconnect_running, reconnect_thread,
                   notifications, rxVars, consecutive_errors, syncVars>>

AppConnect(p) ==
    /\ pc[App] = "idle"
    /\ ConnectOpen(App, p)

\* connect() without the reset of lines 124-126
ConnectFlagsKeepsReady(t) ==
    /\ pc[t] = "c_flags"
    /\ is_connected' = TRUE
    /\ running' = TRUE
    /\ \E r \in Readers :
          /\ pc[r] = "off"
          /\ r = Min({q \in Readers : pc[q] = "off"})
          /\ read_thread' = r
          /\ pc' = [pc EXCEPT ![t] = "c_notify", ![r] = "rd_loop"]
    /\ last_message_time' = 1
    /\ UNCHANGED <<port, open, nextHandle, readyVars, reconVars, notifications,
                   rx_log, handled, buffer, arrived, byteVars, ret, consecutive_errors,
                   syncVars>>

\* lines 121-135: the flags, the time stamp, and the new Reader thread is started
ConnectFlags(t) ==
    /\ pc[t] = "c_flags"
    /\ is_connected' = TRUE
    /\ ready_event' = FALSE
    /\ ready_received' = FALSE
    /\ ready_handled' = FALSE
    /\ running' = TRUE
    /\ \E r \in Readers :
          /\ pc[r] = "off"
          /\ r = Min({q \in Readers : pc[q] = "off"})
          /\ read_thread' = r
          /\ pc' = [pc EXCEPT ![t] = "c_notify", ![r] = "rd_loop"]
    /\ last_message_time' = 1
    /\ UNCHANGED <<port, open, nextHandle, reconVars, notifications,
                   rx_log, handled, buffer, arrived, byteVars, ret, consecutive_errors,
                   syncVars>>

\* connect() without the callback call of lines 141-142
ConnectNotifySilent(t) ==
    /\ pc[t] = "c_notify"
    /\ Goto(t, Return(t))
    /\ ret' = IF t = App THEN "True" ELSE ret
    /\ UNCHANGED <<port, open, nextHandle, is_connected, running, read_thread, readyVars,
                   reconVars, notifications, rxVars, consecutive_errors, syncVars>>

\* lines 141-144
ConnectNotify(t) ==
    /\ pc[t] = "c_notify"
    /\ notifications' = Notified(TRUE)
    /\ Goto(t, Return(t))
    /\ ret' = IF t = App THEN "True" ELSE ret
    /\ UNCHANGED <<port, open, nextHandle, is_connected, running, read_thread, readyVars,
                   reconVars, rxVars, consecutive_errors, syncVars>>

\* ------------------------------------------------------------------------
\* disconnect()

\* lines 155-160: stop_auto_reconnect() and running = False; both joins are
\* bounded by a timeout, so neither thread need have ended
DisconnectStop ==
    /\ pc[App] = "idle"
    /\ reconnect_running' = FALSE
    /\ running' = FALSE
    /\ Goto(App, "d_close")
    /\ UNCHANGED <<port, open, nextHandle, is_connected, read_thread, readyVars,
                   preferred_port, reconnect_thread, notifications, rxVars, ret,
                   consecutive_errors, syncVars>>

\* disconnect() without the guard of line 163: the close, the flag and the
\* notification follow whether or not the port is open
DisconnectCloseUnguarded ==
    /\ pc[App] = "d_close"
    /\ open' = open \ {port}
    /\ Goto(App, "d_flag")
    /\ UNCHANGED <<port, nextHandle, is_connected, running, read_thread, readyVars, reconVars,
                   notifications, rxVars, ret, consecutive_errors, syncVars>>

\* lines 163-164
DisconnectClose ==
    /\ pc[App] = "d_close"
    /\ IF PortOpen
         THEN /\ open' = open \ {port}
              /\ Goto(App, "d_flag")
              /\ ret' = ret
         ELSE /\ Goto(App, "idle")
              /\ ret' = "none"
              /\ UNCHANGED open
    /\ UNCHANGED <<port, nextHandle, is_connected, running, read_thread, readyVars, reconVars,
                   notifications, rxVars, consecutive_errors, syncVars>>

\* line 165
DisconnectFlag ==
    /\ pc[App] = "d_flag"
    /\ is_connected' = FALSE
    /\ Goto(App, "d_notify")
    /\ UNCHANGED <<port, open, nextHandle, running, read_thread, readyVars, reconVars,
                   notifications, rxVars, ret, consecutive_errors, syncVars>>

\* lines 169-170
DisconnectNotify ==
    /\ pc[App] = "d_notify"
    /\ notifications' = Notified(FALSE)
    /\ Goto(App, "idle")
    /\ ret' = "none"
    /\ UNCHANGED <<port, open, nextHandle, is_connected, running, read_thread, readyVars,
                   reconVars, rxVars, consecutive_errors, syncVars>>

\* ------------------------------------------------------------------------
\* _handle_disconnection(), called by a Reader or by check_connection_health

\* lines 255-256
FaultCheck(t) ==
    /\ pc[t] = "hd_check"
    /\ IF ~is_connected
         THEN /\ Goto(t, Return(t))
              /\ ret' = IF t = App THEN "False" ELSE ret
         ELSE /\ Goto(t, "hd_set")
              /\ ret' = ret
    /\ consecutive_errors' = IF t \in Readers /\ ~is_connected
                             THEN [consecutive_errors EXCEPT ![t] = 0]
                             ELSE consecutive_errors
    /\ UNCHANGED <<port, open, nextHandle, is_connected, running, read_thread, readyVars,
                   reconVars, notifications, rxVars, syncVars>>

\* a fault path that stopped the Auto-Reconnect Loop as disconnect() does
FaultSetStopsLoop(t) ==
    /\ pc[t] = "hd_set"
    /\ is_connected' = FALSE
    /\ open' = IF PortOpen THEN open \ {port} ELSE open
    /\ reconnect_running' = FALSE
    /\ Goto(t, "hd_notify")
    /\ UNCHANGED <<port, nextHandle, running, read_thread, readyVars, preferred_port,
                   reconnect_thread, notifications, rxVars, ret, consecutive_errors,
                   syncVars>>

\* lines 261-268
FaultSet(t) ==
    /\ pc[t] = "hd_set"
    /\ is_connected' = FALSE
    /\ open' = IF PortOpen THEN open \ {port} ELSE open
    /\ Goto(t, "hd_notify")
    /\ UNCHANGED <<port, nextHandle, running, read_thread, readyVars, reconVars,
                   notifications, rxVars, ret, consecutive_errors, syncVars>>

\* lines 271-272
FaultNotify(t) ==
    /\ pc[t] = "hd_notify"
    /\ notifications' = Notified(FALSE)
    /\ Goto(t, Return(t))
    /\ ret' = IF t = App THEN "False" ELSE ret
    /\ consecutive_errors' = IF t \in Readers
                             THEN [consecutive_errors EXCEPT ![t] = 0]
                             ELSE consecutive_errors
    /\ UNCHANGED <<port, open, nextHandle, is_connected, running, read_thread, readyVars,
                   reconVars, rxVars, syncVars>>

\* ------------------------------------------------------------------------
\* _handle_incoming_message(message).  A frame is the sequence of its
\* ':'-separated fields: "BTN_PRESS:1:2" is <<"BTN_PRESS", "1", "2">>, "Pong"
\* is <<"Pong">>; ':' in message is Len(frame) > 1.

Numerals == {"0", "1", "2", "5", "50"}

\* int(s) succeeds
IsInt(s) == s \in Numerals

\* int(s) of a numeral
IntOf(s) ==
    CASE s = "0" -> 0
      [] s = "1" -> 1
      [] s = "2" -> 2
      [] s = "5" -> 5
      [] s = "50" -> 50

\* f"{n}" of a non-negative int: its decimal digits
DigitChars == <<"0", "1", "2", "3", "4", "5", "6", "7", "8", "9">>

RECURSIVE StrOf(_)
StrOf(n) == IF n < 10 THEN DigitChars[n + 1] ELSE StrOf(n \div 10) \o DigitChars[(n % 10) + 1]

StartsWith(type, prefix) ==
    \/ type = prefix
    \/ prefix = "ACK" /\ type \in {"ACK_BTN", "ACK_SYNC"}
    \/ prefix = "ERROR" /\ type \in {"ERROR_PARSE"}

\* the dispatcher without the ready_received guards of lines 335 and 353:
\* every READY and every Pong completes the handshake
DispatchUnguarded(frame, received) ==
    IF Len(frame) > 1 /\ frame[1] = "READY"
    THEN [log |-> "ready", call |-> <<>>, ready |-> TRUE]
    ELSE IF frame = <<"Pong">>
         THEN [log |-> "pong_ready", call |-> <<>>, ready |-> TRUE]
         ELSE [log |-> IF Len(frame) > 1 THEN "ack" ELSE "info", call |-> <<>>, ready |-> FALSE]

\* lines 289-361: the log line, the callback invoked (<<>> when none) and
\* whether the frame completes the handshake, given ready_received
Dispatch(frame, received) ==
    LET type == frame[1]
        params == Tail(frame)
    IN  IF Len(frame) > 1
        THEN CASE type = "BTN_PRESS" ->
                    IF Len(params) >= 2 /\ IsInt(params[1]) /\ IsInt(params[2])
                    THEN [log |-> "btn", call |-> <<"BTN_PRESS", IntOf(params[1]), IntOf(params[2])>>, ready |-> FALSE]
                    ELSE [log |-> "parse_error", call |-> <<>>, ready |-> FALSE]
               [] type = "SLIDER_CHANGE" ->
                    IF Len(params) >= 2 /\ IsInt(params[1]) /\ IsInt(params[2])
                    THEN [log |-> "slider", call |-> <<"SLIDER_CHANGE", IntOf(params[1]), IntOf(params[2])>>, ready |-> FALSE]
                    ELSE [log |-> "parse_error", call |-> <<>>, ready |-> FALSE]
               [] type = "MODE_CHANGE" ->
                    \* int(params) of the whole remainder: one numeric field
                    IF Len(params) = 1 /\ IsInt(params[1])
                    THEN [log |-> "mode", call |-> <<"MODE_CHANGE", IntOf(params[1])>>, ready |-> FALSE]
                    ELSE [log |-> "parse_error", call |-> <<>>, ready |-> FALSE]
               [] StartsWith(type, "ACK") ->
                    [log |-> "ack", call |-> <<>>, ready |-> FALSE]
               [] type = "READY" ->
                    IF ~received
                    THEN [log |-> "ready", call |-> <<>>, ready |-> TRUE]
                    ELSE [log |-> "ready_again", call |-> <<>>, ready |-> FALSE]
               [] StartsWith(type, "ERROR") ->
                    [log |-> "error", call |-> <<>>, ready |-> FALSE]
               [] OTHER -> [log |-> "received", call |-> <<>>, ready |-> FALSE]
        ELSE IF frame = <<"Pong">>
             THEN IF ~received
                  THEN [log |-> "pong_ready", call |-> <<>>, ready |-> TRUE]
                  ELSE [log |-> "pong", call |-> <<>>, ready |-> FALSE]
             ELSE [log |-> "info", call |-> <<>>, ready |-> FALSE]

\* the frames the device sends while the whole lifecycle is explored, and
\* while one connection is explored
LifecycleFrames == {<<"READY", "v1">>}
HandshakeFrames == {<<"READY", "v1">>, <<"READY">>, <<"Pong">>, <<"ACK_SYNC", "OK">>}

\* ------------------------------------------------------------------------
\* _read_loop()

\* line 187: the loop condition fails and the thread ends
ReaderExit(r) ==
    /\ pc[r] = "rd_loop"
    /\ ~(running /\ is_connected)
    /\ Goto(r, "off")
    /\ consecutive_errors' = [consecutive_errors EXCEPT ![r] = 0]
    /\ UNCHANGED <<port, open, nextHandle, is_connected, running, read_thread, readyVars,
                   reconVars, notifications, rxVars, ret, syncVars>>

\* lines 187-194: the loop condition holds; the keepalive is due or not, and
\* when due it is one send_message("PING")
KeepaliveOutcomes == {"none"} \cup SendOutcomes

ReaderKeepalive(r) ==
    /\ pc[r] = "rd_loop"
    /\ running /\ is_connected
    /\ \E k \in KeepaliveOutcomes : is_connected' = SendConnected(k)
    /\ Goto(r, "rd_poll")
    /\ UNCHANGED <<port, open, nextHandle, running, read_thread, readyVars, reconVars,
                   notifications, rxVars, ret, consecutive_errors, syncVars>>

\* the frames that have a handler
HandlerTypes == {"BTN_PRESS", "SLIDER_CHANGE", "MODE_CHANGE"}

IsHandlerFrame(frame) == frame[1] \in HandlerTypes

\* line 210: _handle_incoming_message(line) of one line, with the time stamp
\* of line 284
Dispatched(frame) ==
    LET d == Dispatch(frame, ready_received) IN
       /\ last_message_time' = 2
       /\ rx_log' = d.log
       /\ handled' = IF d.call = <<>> THEN handled ELSE Append(handled, d.call)
       /\ ready_received' = (ready_received \/ d.ready)
       /\ ready_event' = (ready_event \/ d.ready)

\* the lines of one read: the first is dispatched by the step that read
\* them, the others wait in the Reader's buffer
Received(r, lines) ==
    /\ lines # <<>>
    /\ Len(arrived) + Len(SelectSeq(lines, IsHandlerFrame)) <= MaxFrames
    /\ arrived' = arrived \o SelectSeq(lines, IsHandlerFrame)
    /\ buffer' = [buffer EXCEPT ![r] = Tail(lines)]
    /\ Dispatched(Head(lines))
    /\ Goto(r, IF Tail(lines) = <<>> THEN "rd_loop" ELSE "rd_lines")

\* the read branch without the reset of line 202
ReaderReadKeepsCount(r, lines) ==
    /\ pc[r] = "rd_poll"
    /\ PortOpen
    /\ Received(r, lines)
    /\ UNCHANGED <<port, open, nextHandle, is_connected, running, read_thread, ready_handled,
                   reconVars, notifications, byteVars, ret, consecutive_errors, syncVars>>

\* a read whose inner loop is left at a line that fails to parse: the lines
\* behind it are lost
ReaderReadStopsAtError(r, lines) ==
    /\ pc[r] = "rd_poll"
    /\ PortOpen
    /\ consecutive_errors' = [consecutive_errors EXCEPT ![r] = 0]
    /\ lines # <<>>
    /\ Len(arrived) + Len(SelectSeq(lines, IsHandlerFrame)) <= MaxFrames
    /\ arrived' = arrived \o SelectSeq(lines, IsHandlerFrame)
    /\ Dispatched(Head(lines))
    /\ LET rest == IF Dispatch(Head(lines), ready_received).log = "parse_error"
                    THEN <<>> ELSE Tail(lines)
       IN  /\ buffer' = [buffer EXCEPT ![r] = rest]
           /\ Goto(r, IF rest = <<>> THEN "rd_loop" ELSE "rd_lines")
    /\ UNCHANGED <<port, open, nextHandle, is_connected, running, read_thread, ready_handled,
                   reconVars, notifications, byteVars, ret, syncVars>>

\* lines 196-210: bytes were waiting; the complete lines read are split off
\* and the first of them is dispatched
ReaderRead(r, lines) ==
    /\ pc[r] = "rd_poll"
    /\ PortOpen
    /\ consecutive_errors' = [consecutive_errors EXCEPT ![r] = 0]
    /\ Received(r, lines)
    /\ UNCHANGED <<port, open, nextHandle, is_connected, running, read_thread, ready_handled,
                   reconVars, notifications, byteVars, ret, syncVars>>

\* lines 205-210: the next line of the buffer is dispatched
ReaderDispatch(r) ==
    /\ pc[r] = "rd_lines"
    /\ buffer[r] # <<>>
    /\ Dispatched(Head(buffer[r]))
    /\ buffer' = [buffer EXCEPT ![r] = Tail(buffer[r])]
    /\ Goto(r, IF Tail(buffer[r]) = <<>> THEN "rd_loop" ELSE "rd_lines")
    /\ UNCHANGED <<port, open, nextHandle, is_connected, running, read_thread, ready_handled,
                   reconVars, notifications, arrived, byteVars, ret, consecutive_errors,
                   syncVars>>

\* ---- the read branch byte by byte ----
\* the bytes on the line: ASCII letters, blank, newline, and the two bytes of
\* the UTF-8 encoding of U+00E9
Bytes == {"A", " ", "\n", "C3", "A9"}

\* line 198: bytes.decode('utf-8', errors='ignore') of what one read
\* returned: a lead byte without its continuation byte and a continuation
\* byte without its lead byte are left out
RECURSIVE Decode(_)
Decode(data) ==
    IF data = <<>> THEN <<>>
    ELSE IF Head(data) = "C3"
         THEN IF Len(data) >= 2 /\ data[2] = "A9"
              THEN <<"U+00E9">> \o Decode(Tail(Tail(data)))
              ELSE Decode(Tail(data))
         ELSE IF Head(data) = "A9"
              THEN Decode(Tail(data))
              ELSE <<Head(data)>> \o Decode(Tail(data))

Whitespace == {" ", "\n"}

\* line 207: str.strip()
RECURSIVE Strip(_)
Strip(line) ==
    IF line = <<>> THEN <<>>
    ELSE IF Head(line) \in Whitespace THEN Strip(Tail(line))
    ELSE IF line[Len(line)] \in Whitespace THEN Strip(SubSeq(line, 1, Len(line) - 1))
    ELSE line

\* the characters of a line as one string
RECURSIVE TextOf(_)
TextOf(line) == IF line = <<>> THEN "" ELSE Head(line) \o TextOf(Tail(line))

\* the index of the first newline of a text, 0 when it has none
RECURSIVE Find(_, _)
Find(text, i) ==
    IF i > Len(text) THEN 0
    ELSE IF text[i] = "\n" THEN i ELSE Find(text, i + 1)

\* lines 205-210: while '\n' in buffer: split off the first line, strip it,
\* and hand it on when it is not empty; rest is the buffer the loop leaves
RECURSIVE SplitLines(_)
SplitLines(text) ==
    LET n == Find(text, 1) IN
        IF n = 0 THEN [lines |-> <<>>, rest |-> text]
        ELSE LET line == Strip(SubSeq(text, 1, n - 1))
                 more == SplitLines(SubSeq(text, n + 1, Len(text)))
             IN  [lines |-> IF line = <<>> THEN more.lines ELSE <<<<TextOf(line)>>>> \o more.lines,
                  rest |-> more.rest]

\* lines 196-210 of one read that returned the bytes data: they are decoded
\* and appended to the buffer, the counter is reset, the complete lines are
\* split off and the first of them is dispatched
ReaderReadBytes(r, data) ==
    /\ pc[r] = "rd_poll"
    /\ PortOpen
    /\ data # <<>>
    /\ Len(rx_bytes) + Len(data) <= MaxBytes
    /\ consecutive_errors' = [consecutive_errors EXCEPT ![r] = 0]
    /\ rx_bytes' = rx_bytes \o data
    /\ LET split == SplitLines(rx_text[r] \o Decode(data)) IN
          /\ rx_text' = [rx_text EXCEPT ![r] = split.rest]
          /\ rx_lines' = rx_lines \o split.lines
          /\ IF split.lines = <<>>
               THEN /\ Goto(r, "rd_loop")
                    /\ UNCHANGED <<rx_log, handled, buffer, arrived, last_message_time,
                                   ready_received, ready_event>>
               ELSE Received(r, split.lines)
    /\ UNCHANGED <<port, open, nextHandle, is_connected, running, read_thread, ready_handled,
                   reconVars, notifications, ret, syncVars>>

\* lines 196, 213, 219: the port is open and nothing is waiting
ReaderIdle(r) ==
    /\ pc[r] = "rd_poll"
    /\ PortOpen
    /\ Goto(r, "rd_loop")
    /\ UNCHANGED <<port, open, nextHandle, is_connected, running, read_thread, readyVars,
                   reconVars, notifications, rxVars, ret, consecutive_errors, syncVars>>

\* lines 213-216: the port is missing or closed
ReaderClosed(r) ==
    /\ pc[r] = "rd_poll"
    /\ ~PortOpen
    /\ Goto(r, "hd_check")
    /\ UNCHANGED <<port, open, nextHandle, is_connected, running, read_thread, readyVars,
                   reconVars, notifications, rxVars, ret, consecutive_errors, syncVars>>

\* lines 221-242: in_waiting or read raised
ReaderError(r) ==
    /\ pc[r] = "rd_poll"
    /\ PortOpen
    /\ consecutive_errors' = [consecutive_errors EXCEPT ![r] = @ + 1]
    /\ IF consecutive_errors[r] + 1 >= max_errors
         THEN Goto(r, "hd_check")
         ELSE Goto(r, "rd_loop")
    /\ UNCHANGED <<port, open, nextHandle, is_connected, running, read_thread, readyVars,
                   reconVars, notifications, rxVars, ret, syncVars>>

\* ------------------------------------------------------------------------
\* start_auto_reconnect / stop_auto_reconnect / _reconnect_loop

\* start_auto_reconnect without the test of line 590
StartAutoReconnectUnguarded(p) ==
    /\ pc[App] = "idle"
    /\ \E l \in Loops :
          /\ pc[l] = "off"
          /\ l = Min({q \in Loops : pc[q] = "off"})
          /\ preferred_port' = p
          /\ reconnect_running' = TRUE
          /\ reconnect_thread' = l
          /\ Goto(l, "rl_loop")
    /\ ret' = "none"
    /\ UNCHANGED <<port, open, nextHandle, is_connected, running, read_thread, readyVars,
                   notifications, rxVars, consecutive_errors, syncVars>>

\* lines 590-601
StartAutoReconnect(p) ==
    /\ pc[App] = "idle"
    /\ IF reconnect_running
         THEN UNCHANGED <<reconVars, pc>>
         ELSE \E l \in Loops :
                /\ pc[l] = "off"
                /\ l = Min({q \in Loops : pc[q] = "off"})
                /\ preferred_port' = p
                /\ reconnect_running' = TRUE
                /\ reconnect_thread' = l
                /\ Goto(l, "rl_loop")
    /\ ret' = "none"
    /\ UNCHANGED <<port, open, nextHandle, is_connected, running, read_thread, readyVars,
                   notifications, rxVars, consecutive_errors, syncVars>>

\* lines 609-615: the join is bounded by a timeout
StopAutoReconnect ==
    /\ pc[App] = "idle"
    /\ reconnect_running' = FALSE
    /\ ret' = "none"
    /\ UNCHANGED <<port, open, nextHandle, is_connected, running, read_thread, readyVars,
                   preferred_port, reconnect_thread, notifications, rxVars, pc, consecutive_errors, syncVars>>

\* a loop that attempted nothing while the manager is disconnected
LoopCheckGivesUp(l) ==
    /\ pc[l] = "rl_loop"
    /\ IF ~reconnect_running THEN Goto(l, "off")
       ELSE IF is_connected /\ preferred_port # NoPort THEN Goto(l, "rl_try")
       ELSE UNCHANGED pc
    /\ UNCHANGED <<port, open, nextHandle, is_connected, running, read_thread, readyVars,
                   reconVars, notifications, rxVars, ret, consecutive_errors,
                   syncVars>>

\* lines 625-627 and the sleep of line 646
LoopCheck(l) ==
    /\ pc[l] = "rl_loop"
    /\ IF ~reconnect_running THEN Goto(l, "off")
       ELSE IF ~is_connected /\ preferred_port # NoPort THEN Goto(l, "rl_try")
       ELSE UNCHANGED pc
    /\ UNCHANGED <<port, open, nextHandle, is_connected, running, read_thread, readyVars,
                   reconVars, notifications, rxVars, ret, consecutive_errors,
                   syncVars>>

\* an attempt whose exception ends the thread
LoopAbsentEndsLoop(l) ==
    /\ pc[l] = "rl_try"
    /\ Goto(l, "off")
    /\ UNCHANGED <<port, open, nextHandle, is_connected, running, read_thread, readyVars,
                   reconVars, notifications, rxVars, ret, consecutive_errors,
                   syncVars>>

\* lines 630-632, 642-643: the preferred port is not listed, or the enumeration raised
LoopAbsent(l) ==
    /\ pc[l] = "rl_try"
    /\ Goto(l, "rl_loop")
    /\ UNCHANGED <<port, open, nextHandle, is_connected, running, read_thread, readyVars,
                   reconVars, notifications, rxVars, ret, consecutive_errors,
                   syncVars>>

\* lines 632-636: the preferred port is listed and connect(preferred_port) is called
LoopConnect(l) ==
    /\ pc[l] = "rl_try"
    /\ preferred_port # NoPort
    /\ ConnectOpen(l, preferred_port)

\* ------------------------------------------------------------------------
\* check_connection_health(), send_message(), wait_for_ready() of the application

\* a health check that does not look at the port
CheckConnectionHealthFlagOnly ==
    /\ pc[App] = "idle"
    /\ ret' = IF is_connected THEN "True" ELSE "False"
    /\ UNCHANGED <<port, open, nextHandle, is_connected, running, read_thread, readyVars,
                   reconVars, notifications, rxVars, pc, consecutive_errors, syncVars>>

\* lines 662-677
CheckConnectionHealth ==
    /\ pc[App] = "idle"
    /\ IF ~is_connected THEN ret' = "False" /\ UNCHANGED pc
       ELSE IF ~PortOpen THEN Goto(App, "hd_check") /\ ret' = "none"
       ELSE ret' = "True" /\ UNCHANGED pc
    /\ UNCHANGED <<port, open, nextHandle, is_connected, running, read_thread, readyVars,
                   reconVars, notifications, rxVars, consecutive_errors, syncVars>>

\* lines 373-384, called outside a sync (send_mode_switch, send_ping, ...)
SendMessage ==
    /\ pc[App] = "idle"
    /\ \E o \in SendOutcomes :
          /\ is_connected' = SendConnected(o)
          /\ ret' = IF o = "ok" THEN "True" ELSE "False"
    /\ UNCHANGED <<port, open, nextHandle, running, read_thread, readyVars, reconVars,
                   notifications, rxVars, pc, consecutive_errors, syncVars>>

\* lines 474-482
WaitForReadyPing ==
    /\ pc[App] = "idle"
    /\ IF ~is_connected
         THEN ret' = "False" /\ UNCHANGED <<pc, is_connected>>
         ELSE /\ \E o \in SendOutcomes : is_connected' = SendConnected(o)
              /\ Goto(App, "w_wait")
              /\ ret' = "none"
    /\ UNCHANGED <<port, open, nextHandle, running, read_thread, readyVars, reconVars,
                   notifications, rxVars, consecutive_errors, syncVars>>

\* lines 485-492: the event is set, or the timeout elapses first
WaitForReadyWait ==
    /\ pc[App] = "w_wait"
    /\ ret' = IF ready_event THEN "True" ELSE "False"
    /\ Goto(App, "idle")
    /\ UNCHANGED <<port, open, nextHandle, is_connected, running, read_thread, readyVars,
                   reconVars, notifications, rxVars, consecutive_errors, syncVars>>

\* ------------------------------------------------------------------------
\* sync_all_configs(config_manager, slider_apps)
\*
\* cfg.modes is config['num_modes'], cfg.names[m + 1] is config['mode_<m>_name']
\* or Absent, cfg.items is config.items() in the dict's order and cfg.sliders
\* is slider_apps.  A frame written to the port is the sequence of its fields.

Absent == "<absent>"

DefaultNames == <<"Mode 1", "Mode 2", "Mode 3", "Mode 4", "Mode 5",
                  "Mode 6", "Mode 7", "Mode 8", "Mode 9", "Mode 10">>

\* ConfigManager.get_mode_name(mode)
GetModeName(c, mode) ==
    IF mode + 1 \in DOMAIN c.names /\ c.names[mode + 1] # Absent
    THEN c.names[mode + 1]
    ELSE DefaultNames[mode + 1]

\* a message with the button before the mode
ButtonFrameSwapped(mode, button, config) ==
    <<"BTN", StrOf(button), StrOf(mode),
      IF config.hotkey = Absent THEN "" ELSE config.hotkey,
      IF config.label = Absent THEN "Button" ELSE config.label>>

\* send_button_config: config.get('hotkey', ''), config.get('label', 'Button')
\* and the f-string of line 400
ButtonFrame(mode, button, config) ==
    <<"BTN", StrOf(mode), StrOf(button),
      IF config.hotkey = Absent THEN "" ELSE config.hotkey,
      IF config.label = Absent THEN "Button" ELSE config.label>>

\* ",".join(apps) for a list of names (lines 563-564); a name is the sequence
\* of its pieces, of which "," is one
RECURSIVE JoinApps(_)
JoinApps(apps) ==
    IF apps = <<>> THEN <<>>
    ELSE IF Len(apps) = 1 THEN apps[1]
    ELSE apps[1] \o <<",">> \o JoinApps(Tail(apps))

\* key.startswith("mode_") and "_btn_" in key
IsButtonKey(item) == item.kind = "btn"

\* one send_message(frame) of the sync: the frame is written unless the call
\* fails; a write that raises sets is_connected = False
SyncSend(frame, o) ==
    /\ is_connected' = SendConnected(o)
    /\ sent' = Append(sent, [frame |-> frame, ok |-> (o = "ok")])

\* lines 398-401: send_button_config called by the application outside a sync
SendButtonConfig(mode, button, config) ==
    /\ pc[App] = "idle"
    /\ Len(sent) < MaxSent
    /\ \E o \in SendOutcomes :
          /\ SyncSend(ButtonFrame(mode, button, config), o)
          /\ ret' = IF o = "ok" THEN "True" ELSE "False"
    /\ UNCHANGED <<port, open, nextHandle, running, read_thread, readyVars, reconVars,
                   notifications, rxVars, pc, consecutive_errors,
                   is_syncing, cfg, count, step, synced>>

SyncUnchanged ==
    UNCHANGED <<port, open, nextHandle, running, read_thread, readyVars, reconVars,
                notifications, rxVars, ret, consecutive_errors, cfg>>

\* lines 513-526
SyncStart ==
    /\ pc[App] = "idle"
    /\ cfg # NoConfig
    /\ IF ~is_connected
         THEN /\ synced' = 0
              /\ UNCHANGED <<is_connected, sent, is_syncing, pc, count, step>>
         ELSE /\ is_syncing' = TRUE
              /\ count' = 0
              /\ step' = 0
              /\ \E o \in SendOutcomes :
                    /\ SyncSend(<<"SYNC_START">>, o)
                    /\ IF o = "ok"
                         THEN Goto(App, "sy_count") /\ synced' = -1
                         ELSE UNCHANGED pc /\ synced' = 0
    /\ SyncUnchanged

\* lines 529-534
SyncModeCount ==
    /\ pc[App] = "sy_count"
    /\ \E o \in SendOutcomes :
          /\ SyncSend(<<"MODE_COUNT", cfg.modes>>, o)
          /\ IF o = "ok"
               THEN Goto(App, "sy_names") /\ synced' = synced
               ELSE Goto(App, "idle") /\ synced' = 0
    /\ UNCHANGED <<is_syncing, count, step>>
    /\ SyncUnchanged

\* lines 537-542: one iteration of the loop over range(num_modes)
SyncModeName ==
    /\ pc[App] = "sy_names"
    /\ IF step < cfg.modes
         THEN \E o \in SendOutcomes :
                /\ SyncSend(<<"MODE_NAME", step, GetModeName(cfg, step)>>, o)
                /\ count' = IF o = "ok" THEN count + 1 ELSE count
                /\ step' = step + 1
                /\ UNCHANGED pc
         ELSE /\ Goto(App, "sy_btns")
              /\ step' = 1
              /\ UNCHANGED <<is_connected, sent, count>>
    /\ UNCHANGED <<is_syncing, synced>>
    /\ SyncUnchanged

\* lines 545-557: one iteration of the loop over config.items()
SyncButton ==
    /\ pc[App] = "sy_btns"
    /\ IF step <= Len(cfg.items)
         THEN /\ IF IsButtonKey(cfg.items[step])
                   THEN \E o \in SendOutcomes :
                          /\ SyncSend(ButtonFrame(cfg.items[step].mode, cfg.items[step].button,
                                                  cfg.items[step]), o)
                          /\ count' = IF o = "ok" THEN count + 1 ELSE count
                   ELSE UNCHANGED <<is_connected, sent, count>>
              /\ step' = step + 1
              /\ UNCHANGED pc
         ELSE /\ Goto(App, "sy_sliders")
              /\ step' = 1
              /\ UNCHANGED <<is_connected, sent, count>>
    /\ UNCHANGED <<is_syncing, synced>>
    /\ SyncUnchanged

\* the slider loop without the test of line 561: an empty list is sent too
SyncSliderUnfiltered ==
    /\ pc[App] = "sy_sliders"
    /\ IF step <= Len(cfg.sliders)
         THEN /\ \E o \in SendOutcomes :
                    SyncSend(<<"SLIDER", step - 1, JoinApps(cfg.sliders[step])>>, o)
              /\ step' = step + 1
              /\ UNCHANGED pc
         ELSE /\ Goto(App, "sy_end")
              /\ step' = 0
              /\ UNCHANGED <<is_connected, sent>>
    /\ UNCHANGED <<is_syncing, count, synced>>
    /\ SyncUnchanged

\* lines 560-570: one iteration of the loop over enumerate(slider_apps)
SyncSlider ==
    /\ pc[App] = "sy_sliders"
    /\ IF step <= Len(cfg.sliders)
         THEN /\ IF cfg.sliders[step] # <<>>
                   THEN \E o \in SendOutcomes :
                          SyncSend(<<"SLIDER", step - 1, JoinApps(cfg.sliders[step])>>, o)
                   ELSE UNCHANGED <<is_connected, sent>>
              /\ step' = step + 1
              /\ UNCHANGED pc
         ELSE /\ Goto(App, "sy_end")
              /\ step' = 0
              /\ UNCHANGED <<is_connected, sent>>
    /\ UNCHANGED <<is_syncing, count, synced>>
    /\ SyncUnchanged

\* the return of line 578 with the sliders that were sent added to the count
SyncEndCountsSliders ==
    /\ pc[App] = "sy_end"
    /\ \E o \in SendOutcomes :
          /\ SyncSend(<<"SYNC_END">>, o)
          /\ synced' = IF o = "ok"
                       THEN count + Cardinality({i \in 1..Len(sent) :
                                                   sent[i].frame[1] = "SLIDER" /\ sent[i].ok})
                       ELSE 0
    /\ is_syncing' = FALSE
    /\ Goto(App, "idle")
    /\ UNCHANGED <<count, step>>
    /\ SyncUnchanged

\* lines 573-578 and send_sync_end, lines 439-441
SyncEnd ==
    /\ pc[App] = "sy_end"
    /\ \E o \in SendOutcomes :
          /\ SyncSend(<<"SYNC_END">>, o)
          /\ synced' = IF o = "ok" THEN count ELSE 0
    /\ is_syncing' = FALSE
    /\ Goto(App, "idle")
    /\ UNCHANGED <<count, step>>
    /\ SyncUnchanged

\* ------------------------------------------------------------------------
\* The whole lifecycle, explored with one Auto-Reconnect Loop thread alive at
\* a time: start_auto_reconnect is called when the loop is running (and is a
\* no-op) or when every earlier loop thread has ended.
LoopsEnded == reconnect_running \/ \A l \in Loops : pc[l] = "off"

Next ==
    \/ \E p \in Ports : AppConnect(p)
    \/ \E t \in {App} \cup Loops : ConnectFlags(t)
    \/ \E t \in {App} \cup Loops : ConnectNotify(t)
    \/ DisconnectStop
    \/ DisconnectClose
    \/ DisconnectFlag
    \/ DisconnectNotify
    \/ \E t \in {App} \cup Readers : FaultCheck(t)
    \/ \E t \in {App} \cup Readers : FaultSet(t)
    \/ \E t \in {App} \cup Readers : FaultNotify(t)
    \/ \E r \in Readers : ReaderExit(r)
    \/ \E r \in Readers : ReaderKeepalive(r)
    \/ \E r \in Readers, frame \in LifecycleFrames : ReaderRead(r, <<frame>>)
    \/ \E r \in Readers : ReaderIdle(r)
    \/ \E r \in Readers : ReaderClosed(r)
    \/ \E r \in Readers : ReaderError(r)
    \/ \E p \in Ports : LoopsEnded /\ StartAutoReconnect(p)
    \/ StopAutoReconnect
    \/ \E l \in Loops : LoopCheck(l)
    \/ \E l \in Loops : LoopAbsent(l)
    \/ \E l \in Loops : LoopConnect(l)
    \/ CheckConnectionHealth
    \/ SendMessage
    \/ WaitForReadyPing
    \/ WaitForReadyWait

Spec == Init /\ [][Next]_vars

\* ------------------------------------------------------------------------
\* One connection: the state connect() leaves behind when it succeeded from
\* the initial state (lines 118-144), and the operations that open no new
\* connection: the Reader of that connection and the application's calls.
InitConnected ==
    /\ port = 1
    /\ open = {1}
    /\ nextHandle = 2
    /\ is_connected = TRUE
    /\ running = TRUE
    /\ read_thread = 21
    /\ ready_event = FALSE
    /\ ready_received = FALSE
    /\ ready_handled = FALSE
    /\ reconnect_running = FALSE
    /\ preferred_port = "COM3"
    /\ reconnect_thread = 0
    /\ notifications = <<TRUE>>
    /\ rx_log = "none"
    /\ handled = <<>>
    /\ buffer = [r \in Readers |-> <<>>]
    /\ arrived = <<>>
    /\ last_message_time = 1
    /\ rx_bytes = <<>>
    /\ rx_text = [r \in Readers |-> <<>>]
    /\ rx_lines = <<>>
    /\ ret = "True"
    /\ pc = [t \in Threads |-> IF t = App THEN "idle" ELSE IF t = 21 THEN "rd_loop" ELSE "off"]
    /\ consecutive_errors = [r \in Readers |-> 0]
    /\ is_syncing = FALSE
    /\ cfg = NoConfig
    /\ sent = <<>>
    /\ count = 0
    /\ step = 0
    /\ synced = -1

NextReader ==
    \/ DisconnectStop
    \/ DisconnectClose
    \/ DisconnectFlag
    \/ DisconnectNotify
    \/ \E t \in {App} \cup Readers : FaultCheck(t)
    \/ \E t \in {App} \cup Readers : FaultSet(t)
    \/ \E t \in {App} \cup Readers : FaultNotify(t)
    \/ \E r \in Readers : ReaderExit(r)
    \/ \E r \in Readers : ReaderKeepalive(r)
    \/ \E r \in Readers, frame \in HandshakeFrames : ReaderRead(r, <<frame>>)
    \/ \E r \in Readers : ReaderIdle(r)
    \/ \E r \in Readers : ReaderClosed(r)
    \/ \E r \in Readers : ReaderError(r)
    \/ CheckConnectionHealth
    \/ SendMessage
    \/ WaitForReadyPing
    \/ WaitForReadyWait

SpecReader == InitConnected /\ [][NextReader]_vars

\* ------------------------------------------------------------------------
\* One connection and the frames that have a handler: the device sends
\* well-formed frames, frames with a non-numeric field and frames with too
\* few or too many fields, one or two lines to a read.
WellFormedFrames ==
    {<<"BTN_PRESS", "2", "5">>, <<"MODE_CHANGE", "2">>}

NonNumericFrames ==
    {<<"SLIDER_CHANGE", "abc", "xyz">>, <<"BTN_PRESS", "1", "x">>, <<"MODE_CHANGE", "abc">>}

WrongArityFrames ==
    {<<"BTN_PRESS", "1">>, <<"SLIDER_CHANGE", "1", "2", "5">>, <<"MODE_CHANGE", "1", "2">>}

DispatchFrames == WellFormedFrames \cup NonNumericFrames \cup WrongArityFrames

Chunks(frames) == {<<f>> : f \in frames} \cup {<<f, g>> : f \in frames, g \in frames}

NextDispatch ==
    \/ \E r \in Readers : FaultCheck(r)
    \/ \E r \in Readers : FaultSet(r)
    \/ \E r \in Readers : FaultNotify(r)
    \/ \E r \in Readers : ReaderExit(r)
    \/ \E r \in Readers : ReaderKeepalive(r)
    \/ \E r \in Readers, lines \in Chunks(DispatchFrames) : ReaderRead(r, lines)
    \/ \E r \in Readers : ReaderDispatch(r)
    \/ \E r \in Readers : ReaderIdle(r)
    \/ \E r \in Readers : ReaderError(r)

SpecDispatch == InitConnected /\ [][NextDispatch]_vars

\* ------------------------------------------------------------------------
\* One connection and its buttons: the application sends button
\* configurations and the device reports presses of those buttons.
ButtonKeys == {<<2, 5>>, <<1, 0>>, <<0, 2>>}

ButtonConfigs == {[hotkey |-> h, label |-> l] : h \in {"ctrl+shift+m", Absent}, l \in {"Mute", Absent}}

PressFrame(mode, button) == <<"BTN_PRESS", StrOf(mode), StrOf(button)>>

NextButton ==
    \/ \E k \in ButtonKeys, c \in ButtonConfigs : SendButtonConfig(k[1], k[2], c)
    \/ \E r \in Readers : ReaderExit(r)
    \/ \E r \in Readers : ReaderKeepalive(r)
    \/ \E r \in Readers, k \in ButtonKeys : ReaderRead(r, <<PressFrame(k[1], k[2])>>)
    \/ \E r \in Readers : ReaderIdle(r)

SpecButton == InitConnected /\ [][NextButton]_vars

\* ------------------------------------------------------------------------
\* Connection cycles: connect(), disconnect(), check_connection_health() and
\* wait_for_ready() of the application next to the Readers its connections
\* start, on a port whose reads raise no I/O error and with no
\* Auto-Reconnect Loop started.
NextCycle ==
    \/ \E p \in Ports : AppConnect(p)
    \/ ConnectFlags(App)
    \/ ConnectNotify(App)
    \/ DisconnectStop
    \/ DisconnectClose
    \/ DisconnectFlag
    \/ DisconnectNotify
    \/ CheckConnectionHealth
    \/ \E t \in {App} \cup Readers : FaultCheck(t)
    \/ \E t \in {App} \cup Readers : FaultSet(t)
    \/ \E t \in {App} \cup Readers : FaultNotify(t)
    \/ \E r \in Readers : ReaderExit(r)
    \/ \E r \in Readers : ReaderKeepalive(r)
    \/ \E r \in Readers, frame \in HandshakeFrames : ReaderRead(r, <<frame>>)
    \/ \E r \in Readers : ReaderIdle(r)
    \/ \E r \in Readers : ReaderClosed(r)
    \/ WaitForReadyPing
    \/ WaitForReadyWait

SpecCycle == Init /\ [][NextCycle]_vars

\* ------------------------------------------------------------------------
\* Reconnection: a connection opened with the Auto-Reconnect Loop running;
\* the Reader's polls may raise, the fault path runs and the loop reconnects,
\* with no call from the application.  The loop thread is scheduled fairly,
\* and a port that is listed again and again is opened in the end.
InitLoop ==
    /\ port = 1
    /\ open = {1}
    /\ nextHandle = 2
    /\ is_connected = TRUE
    /\ running = TRUE
    /\ read_thread = 21
    /\ ready_event = FALSE
    /\ ready_received = FALSE
    /\ ready_handled = FALSE
    /\ reconnect_running = TRUE
    /\ preferred_port = "COM3"
    /\ reconnect_thread = 11
    /\ notifications = <<TRUE>>
    /\ rx_log = "none"
    /\ handled = <<>>
    /\ buffer = [r \in Readers |-> <<>>]
    /\ arrived = <<>>
    /\ last_message_time = 1
    /\ rx_bytes = <<>>
    /\ rx_text = [r \in Readers |-> <<>>]
    /\ rx_lines = <<>>
    /\ ret = "none"
    /\ pc = [t \in Threads |-> IF t = App THEN "idle"
                               ELSE IF t = 11 THEN "rl_loop"
                               ELSE IF t = 21 THEN "rd_loop" ELSE "off"]
    /\ consecutive_errors = [r \in Readers |-> 0]
    /\ is_syncing = FALSE
    /\ cfg = NoConfig
    /\ sent = <<>>
    /\ count = 0
    /\ step = 0
    /\ synced = -1

LoopStep == \E l \in Loops : LoopCheck(l) \/ LoopAbsent(l)
LoopOpens == \E l \in Loops : LoopConnect(l) /\ pc'[l] = "c_flags"
LoopConnects == \E l \in Loops : ConnectFlags(l) \/ ConnectNotify(l)

NextLoop ==
    \/ \E r \in Readers : FaultCheck(r)
    \/ \E r \in Readers : FaultSet(r)
    \/ \E r \in Readers : FaultNotify(r)
    \/ \E r \in Readers : ReaderExit(r)
    \/ \E r \in Readers : ReaderKeepalive(r)
    \/ \E r \in Readers : ReaderClosed(r)
    \/ \E r \in Readers : ReaderError(r)
    \/ \E l \in Loops : LoopCheck(l)
    \/ \E l \in Loops : LoopAbsent(l)
    \/ \E l \in Loops : LoopConnect(l)
    \/ \E l \in Loops : ConnectFlags(l)
    \/ \E l \in Loops : ConnectNotify(l)

SpecLoop ==
    /\ InitLoop /\ [][NextLoop]_vars
    /\ WF_vars(LoopStep) /\ SF_vars(LoopOpens) /\ WF_vars(LoopConnects)

\* ------------------------------------------------------------------------
\* Reconnection next to disconnect(): the run of SpecLoop, in which the
\* application may also call disconnect().
NextDisconnect ==
    \/ NextLoop
    \/ DisconnectStop
    \/ DisconnectClose
    \/ DisconnectFlag
    \/ DisconnectNotify

SpecDisconnect == InitLoop /\ [][NextDisconnect]_vars

\* ------------------------------------------------------------------------
\* The byte stream across reconnections: the device sends well-formed
\* frames only, one or two lines to a read, the port raises no read error,
\* and the Auto-Reconnect Loop reconnects when is_connected has been cleared.
NextOrder ==
    \/ \E r \in Readers : ReaderExit(r)
    \/ \E r \in Readers : ReaderKeepalive(r)
    \/ \E r \in Readers, lines \in Chunks(WellFormedFrames) : ReaderRead(r, lines)
    \/ \E r \in Readers : ReaderDispatch(r)
    \/ \E r \in Readers : ReaderIdle(r)
    \/ \E l \in Loops : LoopCheck(l)
    \/ \E l \in Loops : LoopAbsent(l)
    \/ \E l \in Loops : LoopConnect(l)
    \/ \E l \in Loops : ConnectFlags(l)
    \/ \E l \in Loops : ConnectNotify(l)

SpecOrder == InitLoop /\ [][NextOrder]_vars

\* ------------------------------------------------------------------------
\* The preferred port is absent from every enumeration: the connection the
\* run starts with is lost, the loop threads find no port to open, and the
\* application calls start_auto_reconnect with one of the ports of its
\* dialog, stop_auto_reconnect and disconnect().  Every loop thread is
\* scheduled fairly.
DialogPorts == Ports \cup {"COM4"}

NextAbsent ==
    \/ DisconnectStop
    \/ DisconnectClose
    \/ DisconnectFlag
    \/ DisconnectNotify
    \/ \E r \in Readers : FaultCheck(r)
    \/ \E r \in Readers : FaultSet(r)
    \/ \E r \in Readers : FaultNotify(r)
    \/ \E r \in Readers : ReaderExit(r)
    \/ \E r \in Readers : ReaderKeepalive(r)
    \/ \E r \in Readers : ReaderClosed(r)
    \/ \E r \in Readers : ReaderError(r)
    \/ \E p \in DialogPorts : StartAutoReconnect(p)
    \/ StopAutoReconnect
    \/ \E l \in Loops : LoopCheck(l)
    \/ \E l \in Loops : LoopAbsent(l)

SpecAbsent ==
    /\ InitLoop /\ [][NextAbsent]_vars
    /\ \A l \in Loops : WF_vars(LoopCheck(l) \/ LoopAbsent(l))

\* ------------------------------------------------------------------------
\* The Sync Engine: one sync_all_configs call on an open connection whose
\* handshake has completed, with the Auto-Reconnect Loop running next to it.

Button(m, b, h, l) == [kind |-> "btn", mode |-> m, button |-> b, hotkey |-> h, label |-> l]
OtherKey(k) == [kind |-> k, mode |-> 0, button |-> 0, hotkey |-> Absent, label |-> Absent]

\* config.items() of two configurations with the same four buttons
ItemOrders ==
    { << OtherKey("num_modes"), Button(0, 0, "ctrl+c", "Copy"), OtherKey("name"),
         Button(2, 5, "ctrl+shift+m", "Mute"), Button(1, 2, "f5", Absent),
         OtherKey("slider"), Button(0, 3, Absent, "Browser") >>,
      << Button(2, 5, "ctrl+shift+m", "Mute"), Button(0, 3, Absent, "Browser"),
         OtherKey("preferred_port"), Button(0, 0, "ctrl+c", "Copy"),
         Button(1, 2, "f5", Absent) >> }

SliderChoices ==
    { << << <<"Discord.exe">> >>, <<>>, << <<"chrome.exe">>, <<"Spotify.exe">> >>, <<>> >>,
      << <<>>, <<>>, <<>>, <<>> >> }

Configs ==
    { [modes |-> n, names |-> <<"Game", Absent, "Work">>, items |-> it, sliders |-> sl] :
        n \in 1..MaxModes, it \in ItemOrders, sl \in SliderChoices }

InitSync ==
    /\ port = 1
    /\ open = {1}
    /\ nextHandle = 2
    /\ is_connected = TRUE
    /\ running = TRUE
    /\ read_thread = 21
    /\ ready_event = TRUE
    /\ ready_received = TRUE
    /\ ready_handled = FALSE
    /\ reconnect_running = TRUE
    /\ preferred_port = "COM3"
    /\ reconnect_thread = 11
    /\ notifications = <<TRUE>>
    /\ rx_log = "ready"
    /\ handled = <<>>
    /\ buffer = [r \in Readers |-> <<>>]
    /\ arrived = <<>>
    /\ last_message_time = 2
    /\ rx_bytes = <<>>
    /\ rx_text = [r \in Readers |-> <<>>]
    /\ rx_lines = <<>>
    /\ ret = "True"
    /\ pc = [t \in Threads |-> IF t = App THEN "idle"
                               ELSE IF t = 11 THEN "rl_loop"
                               ELSE IF t = 21 THEN "rd_loop" ELSE "off"]
    /\ consecutive_errors = [r \in Readers |-> 0]
    /\ is_syncing = FALSE
    /\ cfg \in Configs
    /\ sent = <<>>
    /\ count = 0
    /\ step = 0
    /\ synced = -1

NextSync ==
    \/ synced = -1 /\ SyncStart
    \/ SyncModeCount
    \/ SyncModeName
    \/ SyncButton
    \/ SyncSlider
    \/ SyncEnd
    \/ \E l \in Loops : LoopCheck(l)
    \/ \E l \in Loops : LoopAbsent(l)
    \/ \E l \in Loops : LoopConnect(l)
    \/ \E l \in Loops : ConnectFlags(l)
    \/ \E l \in Loops : ConnectNotify(l)

SpecSync == InitSync /\ [][NextSync]_vars

\* ------------------------------------------------------------------------
\* One connection whose reads are followed byte by byte: every read returns
\* the bytes that were waiting, of any content, split from the stream at any
\* place.
RECURSIVE SeqsUpTo(_, _)
SeqsUpTo(S, n) ==
    IF n = 0 THEN {<<>>}
    ELSE LET shorter == SeqsUpTo(S, n - 1)
         IN  shorter \cup {Append(q, x) : q \in shorter, x \in S}

ByteReads == SeqsUpTo(Bytes, MaxBytes) \ {<<>>}

NextBytes ==
    \/ \E r \in Readers : ReaderExit(r)
    \/ \E r \in Readers : ReaderKeepalive(r)
    \/ \E r \in Readers, data \in ByteReads : ReaderReadBytes(r, data)
    \/ \E r \in Readers : ReaderDispatch(r)
    \/ \E r \in Readers : ReaderIdle(r)

SpecBytes == InitConnected /\ [][NextBytes]_vars

\* ------------------------------------------------------------------------
\* An import on a fresh connection: connect() has succeeded, the Reader is
\* waiting for the device's READY, and MainWindow._handle_import calls
\* sync_all_configs as soon as is_connected is set (main_window.py 1100-1102).
InitImport ==
    /\ port = 1
    /\ open = {1}
    /\ nextHandle = 2
    /\ is_connected = TRUE
    /\ running = TRUE
    /\ read_thread = 21
    /\ ready_event = FALSE
    /\ ready_received = FALSE
    /\ ready_handled = FALSE
    /\ reconnect_running = FALSE
    /\ preferred_port = "COM3"
    /\ reconnect_thread = 0
    /\ notifications = <<TRUE>>
    /\ rx_log = "none"
    /\ handled = <<>>
    /\ buffer = [r \in Readers |-> <<>>]
    /\ arrived = <<>>
    /\ last_message_time = 1
    /\ rx_bytes = <<>>
    /\ rx_text = [r \in Readers |-> <<>>]
    /\ rx_lines = <<>>
    /\ ret = "True"
    /\ pc = [t \in Threads |-> IF t = App THEN "idle" ELSE IF t = 21 THEN "rd_loop" ELSE "off"]
    /\ consecutive_errors = [r \in Readers |-> 0]
    /\ is_syncing = FALSE
    /\ cfg \in {c \in Configs : c.modes = 1}
    /\ sent = <<>>
    /\ count = 0
    /\ step = 0
    /\ synced = -1

NextImport ==
    \/ synced = -1 /\ SyncStart
    \/ SyncModeCount
    \/ SyncModeName
    \/ SyncButton
    \/ SyncSlider
    \/ SyncEnd
    \/ \E r \in Readers : ReaderExit(r)
    \/ \E r \in Readers : ReaderKeepalive(r)
    \/ \E r \in Readers, frame \in HandshakeFrames : ReaderRead(r, <<frame>>)
    \/ \E r \in Readers : ReaderIdle(r)

SpecImport == InitImport /\ [][NextImport]_vars

\* ========================================================================
\* Properties

\* ---- C1 ----------------------------------------------------------------
\* C1: in every reachable state at most one serial port handle opened by the
\* manager is open; a successful connect() leaves no earlier handle open next
\* to the new one.
C1_AtMostOneOpenHandle == Cardinality(open) <= 1

\* ---- C2 ----------------------------------------------------------------
\* the positions from which a thread calls callbacks['CONNECTION_CHANGED'](False)
\* as its next step
NotifyFalseLabels == {"d_notify", "hd_notify"}

\* C2: every step that takes is_connected from true to false is taken by a
\* thread that fires CONNECTION_CHANGED(false) for it: after the step that
\* thread stands right before the callback call.
C2_DisconnectionNotified ==
    [][(is_connected /\ ~is_connected') =>
         \E t \in Threads : pc'[t] # pc[t] /\ pc'[t] \in NotifyFalseLabels]_vars

\* ---- C3 ----------------------------------------------------------------
\* C3: once the handshake signal is set on a connection, a further READY or
\* Pong frame is dispatched and logged as a repetition, sets the signal no
\* second time and starts nothing in the application; the signal goes from
\* clear to set only in the dispatch of a READY or Pong frame that finds
\* ready_received false.
C3_HandshakeOnce ==
    [][/\ \A r \in Readers, frame \in HandshakeFrames :
            (ReaderRead(r, <<frame>>) /\ ready_received /\ frame[1] \in {"READY", "Pong"}) =>
               /\ rx_log' \in {"ready_again", "pong", "info"}
               /\ UNCHANGED <<ready_received, ready_event, ready_handled>>
               /\ pc'[App] = pc[App]
               /\ UNCHANGED <<notifications, syncVars>>
       /\ (~ready_event /\ ready_event') =>
            /\ ~ready_received /\ ready_received'
            /\ rx_log' \in {"ready", "pong_ready"}
            /\ \E r \in Readers, frame \in HandshakeFrames : ReaderRead(r, <<frame>>)
      ]_vars

\* a READY or Pong frame was dispatched after the handshake had completed
C3_Witness ==
    /\ ready_received /\ ready_event
    /\ rx_log \in {"ready_again", "pong"}

\* ---- C4 ----------------------------------------------------------------
\* C4: a poll error takes the Reader into the fault path exactly when it is
\* the fifth in a row; the Reader that ends after its fifth error leaves the
\* connection disconnected with CONNECTION_CHANGED(false) as the latest
\* notification fired (or being fired by the thread that disconnected).
C4_FifthErrorFault ==
    [][\A r \in Readers :
         /\ ReaderError(r) =>
              /\ consecutive_errors'[r] = consecutive_errors[r] + 1
              /\ (pc'[r] = "hd_check") = (consecutive_errors'[r] = max_errors)
         /\ (/\ consecutive_errors[r] = max_errors
             /\ pc[r] \in {"hd_check", "hd_notify"}
             /\ pc'[r] = "off") =>
              /\ ~is_connected'
              /\ \/ /\ notifications' # <<>>
                    /\ notifications'[Len(notifications')] = FALSE
                 \/ \E t \in Threads : pc'[t] \in NotifyFalseLabels
      ]_vars

\* ---- C5 ----------------------------------------------------------------
\* C5: a successful read resets the Reader's counter to zero whatever it was
\* (4 included), keeps the Reader in its loop, and neither it nor an error
\* below the threshold touches is_connected, the port or the notifications;
\* the counter forces the fault path only by an error that makes it max_errors.
C5_SuccessResetsCounter ==
    [][\A r \in Readers :
         /\ \A frame \in HandshakeFrames : ReaderRead(r, <<frame>>) =>
              /\ consecutive_errors'[r] = 0
              /\ pc'[r] = "rd_loop"
              /\ UNCHANGED <<is_connected, port, open, notifications>>
         /\ ReaderError(r) =>
              /\ consecutive_errors'[r] = consecutive_errors[r] + 1
              /\ UNCHANGED <<is_connected, port, open, notifications>>
              /\ (pc'[r] = "hd_check") => consecutive_errors[r] = max_errors - 1
      ]_vars

\* the Reader has counted 4 consecutive errors, its connection is intact and
\* it polls again
C5_Witness ==
    \E r \in Readers :
       /\ consecutive_errors[r] = max_errors - 1
       /\ pc[r] = "rd_poll"
       /\ is_connected /\ PortOpen

\* ---- C6 ----------------------------------------------------------------
AlreadyDisconnected == ~is_connected /\ ~PortOpen /\ ~running /\ ~reconnect_running

\* C6: disconnect() called in the state a disconnect() leaves behind, and the
\* fault path called while is_connected is false, change nothing and fire no
\* CONNECTION_CHANGED(false): each of their steps only moves the caller on
\* to its return.
C6_Idempotent ==
    [][/\ (AlreadyDisconnected /\ DisconnectStop) =>
            /\ pc'[App] = "d_close"
            /\ UNCHANGED <<port, open, is_connected, running, read_thread, readyVars,
                           reconVars, notifications, rxVars, syncVars>>
       /\ (AlreadyDisconnected /\ DisconnectClose) =>
            /\ pc'[App] = "idle"
            /\ UNCHANGED <<port, open, is_connected, running, read_thread, readyVars,
                           reconVars, notifications, rxVars, syncVars>>
       /\ \A t \in {App} \cup Readers : (~is_connected /\ FaultCheck(t)) =>
            /\ pc'[t] = Return(t)
            /\ UNCHANGED <<port, open, is_connected, running, read_thread, readyVars,
                           reconVars, notifications, rxVars, syncVars>>
      ]_vars

\* the second disconnect() runs: the first one has fired its notification
\* and left everything closed
C6_Witness ==
    /\ pc[App] = "d_close"
    /\ AlreadyDisconnected
    /\ notifications = <<TRUE, FALSE>>

\* the fault path was entered by a Reader while already disconnected
C6_WitnessFault ==
    \E r \in Readers : pc[r] = "hd_check" /\ ~is_connected

\* ---- C7 ----------------------------------------------------------------
\* C7: the Auto-Reconnect Loop calls connect() only in states where no
\* Connection is open.
C7_LoopConnectsOnlyWhenDisconnected ==
    [][\A l \in Loops : LoopConnect(l) => ~is_connected]_vars

\* ---- C8 ----------------------------------------------------------------
DisconnectReturns == pc[App] \in {"d_close", "d_notify"} /\ pc'[App] = "idle"

\* C8: when disconnect() returns, reconnect_running is false, is_connected is
\* false and the port handle is closed.
C8_DisconnectPostcondition ==
    [][DisconnectReturns =>
         (~reconnect_running' /\ ~is_connected' /\ ~(port' # NoHandle /\ port' \in open'))]_vars

\* ---- C9 ----------------------------------------------------------------
SyncReturned == pc[App] = "idle" /\ synced # -1

\* the calls of send_message that carried a frame of the given type
SentOf(type) == {i \in 1..Len(sent) : sent[i].frame[1] = type}

\* those of them that succeeded
OkOf(type) == {i \in SentOf(type) : sent[i].ok}

Phase(i) ==
    CASE sent[i].frame[1] = "SYNC_START" -> 1
      [] sent[i].frame[1] = "MODE_COUNT" -> 2
      [] sent[i].frame[1] = "MODE_NAME" -> 3
      [] sent[i].frame[1] = "BTN" -> 4
      [] sent[i].frame[1] = "SLIDER" -> 5
      [] sent[i].frame[1] = "SYNC_END" -> 6
      [] OTHER -> 0

ConfiguredButtons == {i \in 1..Len(cfg.items) : cfg.items[i].kind = "btn"}
FilledSliders == {k \in 1..Len(cfg.sliders) : cfg.sliders[k] # <<>>}

\* C9: sync_all_configs sends no frame of a later step before a frame of an
\* earlier step, MODE_NAME and SLIDER frames in ascending index, and no SLIDER
\* frame for an empty app list; when it has returned and every send
\* succeeded, the frames are SYNC_START, MODE_COUNT:n, MODE_NAME:0..n-1, one
\* BTN per configured button, one SLIDER per non-empty slider, SYNC_END.
C9_SyncOrder ==
    /\ \A i, j \in 1..Len(sent) : i < j => Phase(i) >= 1 /\ Phase(i) <= Phase(j)
    /\ \A i, j \in SentOf("MODE_NAME") : i < j => sent[i].frame[2] < sent[j].frame[2]
    /\ \A i, j \in SentOf("SLIDER") : i < j => sent[i].frame[2] < sent[j].frame[2]
    /\ \A i \in SentOf("SLIDER") : sent[i].frame[2] + 1 \in FilledSliders
    /\ (SyncReturned /\ sent # <<>> /\ \A i \in 1..Len(sent) : sent[i].ok) =>
          /\ sent[1].frame = <<"SYNC_START">>
          /\ sent[2].frame = <<"MODE_COUNT", cfg.modes>>
          /\ Cardinality(SentOf("MODE_NAME")) = cfg.modes
          /\ \A m \in 0..(cfg.modes - 1) :
                sent[3 + m].frame[1] = "MODE_NAME" /\ sent[3 + m].frame[2] = m
          /\ Cardinality(SentOf("BTN")) = Cardinality(ConfiguredButtons)
          /\ \A b \in ConfiguredButtons : \E i \in SentOf("BTN") :
                /\ sent[i].frame[2] = StrOf(cfg.items[b].mode)
                /\ sent[i].frame[3] = StrOf(cfg.items[b].button)
          /\ Cardinality(SentOf("SLIDER")) = Cardinality(FilledSliders)
          /\ sent[Len(sent)].frame = <<"SYNC_END">>
          /\ Len(sent) = 3 + cfg.modes + Cardinality(ConfiguredButtons)
                           + Cardinality(FilledSliders)

\* a sync of 3 modes, 4 buttons and 2 non-empty sliders has returned and
\* every one of its 12 sends succeeded
C9_Witness ==
    /\ SyncReturned
    /\ cfg.modes = 3 /\ Cardinality(FilledSliders) = 2
    /\ Len(sent) = 12
    /\ \A i \in 1..Len(sent) : sent[i].ok

\* ---- C10 ---------------------------------------------------------------
\* C10: when sync_all_configs has returned and its SYNC_START, MODE_COUNT and
\* SYNC_END were sent successfully, the value returned is the number of
\* MODE_NAME frames plus the number of BTN frames sent successfully; SLIDER
\* frames are not counted.
C10_SyncCount ==
    (/\ SyncReturned
     /\ OkOf("SYNC_START") # {} /\ OkOf("MODE_COUNT") # {} /\ OkOf("SYNC_END") # {}) =>
        synced = Cardinality(OkOf("MODE_NAME")) + Cardinality(OkOf("BTN"))

\* 3 modes, 4 buttons and 2 sliders were sent successfully and 7 is returned
C10_Witness ==
    /\ SyncReturned
    /\ synced = 7
    /\ Cardinality(OkOf("MODE_NAME")) = 3
    /\ Cardinality(OkOf("BTN")) = 4
    /\ Cardinality(OkOf("SLIDER")) = 2

\* a sync in which a send failed after SYNC_START and the connection came
\* back before SYNC_END: fewer frames are counted than were attempted
C10_WitnessPartial ==
    /\ SyncReturned
    /\ OkOf("SYNC_END") # {}
    /\ \E i \in SentOf("MODE_NAME") \cup SentOf("BTN") : ~sent[i].ok

\* ---- C11 ---------------------------------------------------------------
\* C11: when sync_all_configs has returned and one of its sends failed, the
\* value returned is 0.
C11_FailedSendReturnsZero ==
    (SyncReturned /\ \E i \in 1..Len(sent) : ~sent[i].ok) => synced = 0

\* ---- C12 ---------------------------------------------------------------
\* C12: a sync that returns 0 because a send failed leaves the connection it
\* started on open: no new port was opened, and is_connected is true.
C12_AbortKeepsConnection ==
    (/\ SyncReturned /\ synced = 0
     /\ \E i \in 1..Len(sent) : ~sent[i].ok
     /\ port = 1) => is_connected

\* ---- C14 ---------------------------------------------------------------
\* C14: the dispatch of a READY frame that finds ready_received false sets
\* ready_received and ready_event, with or without a version payload.
C14_FirstReadyCompletes ==
    [][\A r \in Readers, frame \in HandshakeFrames :
         (ReaderRead(r, <<frame>>) /\ frame[1] = "READY" /\ ~ready_received) =>
            (ready_received' /\ ready_event')]_vars

\* ---- C13 ---------------------------------------------------------------
\* C13: connect() clears the handshake signal; the signal is set only by the
\* dispatch of a READY or Pong frame read from the open port; wait_for_ready
\* returns True only when the signal is set.  So a True of wait_for_ready
\* rests on a READY or Pong dispatched after the latest connect().
C13_FreshHandshake ==
    [][/\ \A t \in {App} \cup Loops : ConnectFlags(t) => (~ready_event' /\ ~ready_received')
       /\ (~ready_event /\ ready_event') =>
             \E r \in Readers, frame \in HandshakeFrames :
                ReaderRead(r, <<frame>>) /\ frame[1] \in {"READY", "Pong"} /\ PortOpen
       /\ (WaitForReadyWait /\ ret' = "True") => ready_event
      ]_vars

\* the second connection of a run has completed its own handshake
C13_Witness ==
    /\ port = 2 /\ is_connected /\ PortOpen
    /\ ready_event /\ ready_received
    /\ rx_log \in {"ready", "pong_ready"}

StartedReaders == {r \in Readers : pc[r] # "off"}

\* C19: a connect() whose open succeeded sets is_connected, clears the three
\* handshake flags and starts exactly one Reader, which stands at the head of
\* its loop with the flags clear; it then fires CONNECTION_CHANGED(true),
\* once, and returns True; no other step of connect() fires a notification.
C19_SuccessfulConnect ==
    [][\A t \in {App} \cup Loops :
         /\ ConnectFlags(t) =>
              /\ is_connected' /\ running'
              /\ ~ready_event' /\ ~ready_received' /\ ~ready_handled'
              /\ \E r \in Readers \ StartedReaders :
                    /\ {q \in Readers : pc'[q] # "off"} = StartedReaders \cup {r}
                    /\ pc'[r] = "rd_loop"
                    /\ read_thread' = r
              /\ pc'[t] = "c_notify"
              /\ notifications' = notifications
         /\ ConnectNotify(t) =>
              /\ notifications' = Notified(TRUE)
              /\ pc'[t] = Return(t)
              /\ t = App => ret' = "True"
         /\ ((\E p \in Ports : AppConnect(p)) \/ (t \in Loops /\ LoopConnect(t)))
                => notifications' = notifications
      ]_vars

\* the application's connect() has returned True
C19_Witness ==
    /\ pc[App] = "idle" /\ ret = "True"
    /\ is_connected /\ PortOpen
    /\ notifications # <<>> /\ notifications[Len(notifications)] = TRUE
    /\ Cardinality(StartedReaders) = 1

\* ---- C20 ---------------------------------------------------------------
\* C20: no step of wait_for_ready changes is_connected, the port, the Reader
\* or the handshake flags; called while disconnected it returns False at
\* once; when the timeout elapses with the signal clear it returns False.
C20_WaitChangesNothing ==
    [][/\ (WaitForReadyPing \/ WaitForReadyWait) =>
            UNCHANGED <<is_connected, port, open, running, read_thread, readyVars>>
       /\ (WaitForReadyPing /\ ~is_connected) => (ret' = "False" /\ pc'[App] = "idle")
       /\ (WaitForReadyWait /\ ~ready_event) => ret' = "False"
      ]_vars

\* ---- C15 ---------------------------------------------------------------
LastNotification == notifications[Len(notifications)]

\* the manager is disconnected, the loop has not been stopped and a further
\* serial.Serial object can be opened
AwaitingReconnect ==
    /\ ~is_connected
    /\ reconnect_running
    /\ nextHandle <= MaxHandles

\* C15: once the fault path has disconnected the manager with the
\* Auto-Reconnect Loop running, a connect() of the loop makes it connected
\* again, and a connect() of the loop that has set is_connected goes on to
\* fire CONNECTION_CHANGED(true).
C15_ReconnectsEventually ==
    /\ AwaitingReconnect ~> is_connected
    /\ (\E l \in Loops : pc[l] = "c_notify") ~>
          (notifications # <<>> /\ LastNotification = TRUE)

\* the loop has reconnected after a fault-path disconnection
C15_Witness ==
    /\ port = 2 /\ is_connected
    /\ notifications = <<FALSE, TRUE>>
    /\ reconnect_running

\* ---- C16 ---------------------------------------------------------------
\* C16: no step of _handle_disconnection changes reconnect_running, the
\* reconnect thread or preferred_port; disconnect() clears reconnect_running
\* in its first step, so that it is false when the port is closed.
C16_FaultKeepsLoop ==
    [][/\ \A t \in {App} \cup Readers :
            (FaultCheck(t) \/ FaultSet(t) \/ FaultNotify(t)) =>
               (UNCHANGED reconVars /\ \A l \in Loops : pc'[l] = pc[l])
       /\ DisconnectStop => ~reconnect_running'
       /\ DisconnectClose => ~reconnect_running
      ]_vars

\* the fault path has run to its end while the loop was running
C16_Witness ==
    /\ reconnect_running /\ ~is_connected
    /\ notifications # <<>> /\ LastNotification = FALSE
    /\ \E l \in Loops : pc[l] # "off"

\* ---- C17 ---------------------------------------------------------------
\* C17: a loop thread that is alive when reconnect_running has been cleared
\* eventually terminates.
C17_StoppedLoopTerminates ==
    \A l \in Loops : (pc[l] # "off" /\ ~reconnect_running) ~> (pc[l] = "off")

\* ---- C23 ---------------------------------------------------------------
\* Reader r dispatches the frame: as the first line of a read, or as the next
\* line of its buffer
Dispatches(r, frame) ==
    \/ pc[r] = "rd_poll" /\ ReaderRead(r, <<frame>>)
    \/ pc[r] = "rd_poll" /\ \E g \in DispatchFrames : ReaderRead(r, <<frame, g>>)
    \/ pc[r] = "rd_lines" /\ buffer[r] # <<>> /\ Head(buffer[r]) = frame /\ ReaderDispatch(r)

\* what the dispatch of a dropped frame leaves behind, rest being the lines
\* read behind it
DroppedThenOn(r, rest) ==
    /\ handled' = handled
    /\ rx_log' = "parse_error"
    /\ consecutive_errors'[r] <= consecutive_errors[r]
    /\ is_connected' = is_connected /\ open' = open
    /\ buffer'[r] = rest
    /\ pc'[r] = IF rest = <<>> THEN "rd_loop" ELSE "rd_lines"

\* C23: the dispatch of a frame with a non-numeric field invokes no handler,
\* is logged as a parse error, does not raise the Reader's error counter,
\* keeps the Reader in its loop and the connection up, and leaves every line
\* read behind it in the buffer, where the Reader dispatches it next.
C23_NonNumericDropped ==
    [][\A r \in Readers, frame \in NonNumericFrames :
         /\ ReaderRead(r, <<frame>>) => DroppedThenOn(r, <<>>)
         /\ \A g \in DispatchFrames : ReaderRead(r, <<frame, g>>) => DroppedThenOn(r, <<g>>)
         /\ (pc[r] = "rd_lines" /\ buffer[r] # <<>> /\ Head(buffer[r]) = frame /\ ReaderDispatch(r))
               => DroppedThenOn(r, Tail(buffer[r]))
      ]_vars

\* a non-numeric frame has been dispatched and the well-formed frame read
\* with it is the Reader's next line
C23_Witness ==
    /\ arrived = <<<<"SLIDER_CHANGE", "abc", "xyz">>, <<"BTN_PRESS", "2", "5">>>>
    /\ rx_log = "parse_error" /\ handled = <<>>
    /\ pc[21] = "rd_lines" /\ buffer[21] = <<<<"BTN_PRESS", "2", "5">>>>
    /\ is_connected /\ consecutive_errors[21] = 0

\* ---- C24 ---------------------------------------------------------------
\* C24: the dispatch of a BTN_PRESS, SLIDER_CHANGE or MODE_CHANGE frame with
\* too few or too many payload fields invokes no handler and leaves the
\* connection as it is.
C24_WrongArityDropped ==
    [][\A r \in Readers, frame \in WrongArityFrames :
         Dispatches(r, frame) =>
            /\ handled' = handled
            /\ is_connected' = is_connected /\ open' = open
      ]_vars

\* ---- C25 ---------------------------------------------------------------
\* get_connection_status(): the fields of the status, last_message_ago by the
\* time stamp it is computed from
ConnectionStatus ==
    [connected |-> is_connected,
     port |-> preferred_port,
     port_open |-> PortOpen,
     read_thread_alive |-> (read_thread # 0 /\ pc[read_thread] # "off"),
     reconnect_active |-> reconnect_running,
     last_message_time |-> last_message_time]

\* C25: the dispatch of a malformed frame invokes no handler and changes no
\* field of the connection status.
C25_MalformedChangesNothing ==
    [][\A r \in Readers, frame \in NonNumericFrames \cup WrongArityFrames :
         Dispatches(r, frame) =>
            /\ handled' = handled
            /\ ConnectionStatus' = ConnectionStatus
      ]_vars

\* ---- C29 ---------------------------------------------------------------
LastSent == sent[Len(sent)].frame

\* C29: send_button_config(2, 5, {ctrl+shift+m, Mute}) passes the fields
\* BTN, 2, 5, ctrl+shift+m, Mute to send_message; for every mode, button and
\* configuration the message has five fields, BTN, the decimal numerals of
\* mode and button, the hotkey or the empty string, and the label or Button;
\* the dispatch of BTN_PRESS:{mode}:{button} calls the BTN_PRESS handler
\* with the pair (mode, button).
C29_ButtonRoundTrip ==
    [][/\ SendButtonConfig(2, 5, [hotkey |-> "ctrl+shift+m", label |-> "Mute"]) =>
            LastSent' = <<"BTN", "2", "5", "ctrl+shift+m", "Mute">>
       /\ \A k \in ButtonKeys, c \in ButtonConfigs :
            SendButtonConfig(k[1], k[2], c) =>
               /\ Len(sent') = Len(sent) + 1
               /\ Len(LastSent') = 5
               /\ LastSent'[1] = "BTN"
               /\ IsInt(LastSent'[2]) /\ IntOf(LastSent'[2]) = k[1]
               /\ IsInt(LastSent'[3]) /\ IntOf(LastSent'[3]) = k[2]
               /\ LastSent'[4] = (IF c.hotkey = Absent THEN "" ELSE c.hotkey)
               /\ LastSent'[5] = (IF c.label = Absent THEN "Button" ELSE c.label)
       /\ \A r \in Readers, k \in ButtonKeys :
            ReaderRead(r, <<PressFrame(k[1], k[2])>>) =>
               handled' = Append(handled, <<"BTN_PRESS", k[1], k[2]>>)
      ]_vars

\* the example configuration has been sent and a press of that button has
\* reached the handler
C29_Witness ==
    /\ sent = <<[frame |-> <<"BTN", "2", "5", "ctrl+shift+m", "Mute">>, ok |-> TRUE]>>
    /\ handled # <<>> /\ handled[Len(handled)] = <<"BTN_PRESS", 2, 5>>

\* ---- C22 ---------------------------------------------------------------
\* the handler call a well-formed frame stands for
CallOf(frame) ==
    IF frame[1] = "MODE_CHANGE"
    THEN <<"MODE_CHANGE", IntOf(frame[2])>>
    ELSE <<frame[1], IntOf(frame[2]), IntOf(frame[3])>>

\* C22: with well-formed frames only, the handler calls made so far are the
\* calls of the first frames read from the port, in the order of reading;
\* once no Reader holds an undispatched line, every frame read has had its
\* call.
C22_HandlersInOrder ==
    /\ Len(handled) <= Len(arrived)
    /\ \A i \in 1..Len(handled) : handled[i] = CallOf(arrived[i])
    /\ (\A r \in Readers : buffer[r] = <<>>) => Len(handled) = Len(arrived)

\* ---- C30 ---------------------------------------------------------------
\* C30: at most one Reader is inside an iteration of its read loop.
C30_OneReaderInLoop ==
    Cardinality({r \in Readers : pc[r] \in {"rd_poll", "rd_lines"}}) <= 1

\* ---- C21 ---------------------------------------------------------------
\* C21: a Reader goes into a further iteration of its loop only while it is
\* the Reader that the latest connect() started.
C21_ReaderEndsWithConnection ==
    [][\A r \in Readers : ReaderKeepalive(r) => r = read_thread]_vars

\* ---- C26 ---------------------------------------------------------------
\* everything but the value returned to the application
AllButRet ==
    <<port, open, nextHandle, is_connected, running, read_thread, readyVars, reconVars,
      notifications, rxVars, pc, consecutive_errors, syncVars>>

C27_StartAutoReconnect ==
    [][\A p \in DialogPorts :
         StartAutoReconnect(p) =>
            IF reconnect_running
            THEN /\ UNCHANGED reconVars
                 /\ \A l \in Loops : pc'[l] = pc[l]
            ELSE /\ preferred_port' = p
                 /\ reconnect_running'
                 /\ \E l \in Loops :
                       /\ pc[l] = "off" /\ pc'[l] = "rl_loop"
                       /\ reconnect_thread' = l
                       /\ \A q \in Loops \ {l} : pc'[q] = pc[q]
      ]_vars

\* start_auto_reconnect has started a loop for the dialog's other port
C27_Witness ==
    /\ reconnect_running /\ preferred_port = "COM4"
    /\ reconnect_thread \in Loops /\ pc[reconnect_thread] = "rl_loop"
    /\ pc[App] = "idle"

\* ---- C28 ---------------------------------------------------------------
\* C28: an attempt of the loop that raised or failed brings the loop thread
\* back to the head of its loop with reconnect_running as it was; a connect()
\* of the loop whose open succeeded goes on inside connect(); a loop thread
\* ends only by its loop test, with reconnect_running false.
C28_AttemptNeverEndsLoop ==
    [][\A l \in Loops :
         /\ LoopAbsent(l) => (pc'[l] = "rl_loop" /\ UNCHANGED reconVars)
         /\ LoopConnect(l) =>
              (pc'[l] \in {"rl_loop", "c_flags"} /\ reconnect_running' = reconnect_running)
         /\ (pc[l] # "off" /\ pc'[l] = "off") => (LoopCheck(l) /\ ~reconnect_running)
         /\ (LoopCheck(l) /\ reconnect_running) => pc'[l] \in {"rl_loop", "rl_try"}
      ]_vars

\* the loop is inside an attempt after the connection was lost
C28_Witness ==
    \E l \in Loops :
       /\ pc[l] = "rl_try" /\ reconnect_running /\ ~is_connected
       /\ notifications # <<>> /\ LastNotification = FALSE

\* ---- C31 ---------------------------------------------------------------
\* C31: a loop thread passes its loop test only while it is the thread that
\* the latest start_auto_reconnect started.
C31_OneLoopGoesOn ==
    [][\A l \in Loops : (LoopCheck(l) /\ pc'[l] # "off") => l = reconnect_thread]_vars

\* the fault path past its already-handled test (line 255): each thread here
\* goes on to fire CONNECTION_CHANGED(false)
PastFaultTest == {"hd_set", "hd_notify"}

\* C32: when the Reader of the current connection and the application thread
\* (check_connection_health) are in the fault path at the same time, only one
\* of them is past the already-handled test, so only one CONNECTION_CHANGED(false)
\* is fired for that connection.
C32_OneFaultNotification ==
    ~(pc[App] \in PastFaultTest /\ read_thread \in Readers /\ pc[read_thread] \in PastFaultTest)


\* ---- C33 ---------------------------------------------------------------
InConnect(t) == pc[t] \in {"c_flags", "c_notify"}

\* C33: while is_connected is false and no thread is inside connect(), no
\* serial port is open.
C33_DisconnectedHoldsNoPort ==
    (~is_connected /\ \A t \in Threads : ~InConnect(t)) => open = {}

\* ---- C34 ---------------------------------------------------------------
\* C34: two CONNECTION_CHANGED calls in a row never carry the same value.
C34_NotificationsAlternate ==
    \A i \in 1..(Len(notifications) - 1) : notifications[i] # notifications[i + 1]

\* ---- C35 ---------------------------------------------------------------
\* C35: with the application outside every call and reconnect_running
\* cleared by its disconnect(), no loop thread sets is_connected.
C35_NoConnectAfterDisconnect ==
    [][\A l \in Loops : (ConnectFlags(l) /\ pc[App] = "idle") => reconnect_running]_vars

\* ---- C36 ---------------------------------------------------------------
\* C36: when sync_all_configs has returned, is_syncing is false.
C36_SyncingOnlyDuringSync ==
    SyncReturned => ~is_syncing

\* ---- C37 ---------------------------------------------------------------
\* C37: a SYNC_START is written only to an open connection whose handshake
\* has completed.
C37_SyncFromReady ==
    [][(SyncStart /\ Len(sent') > Len(sent) /\ sent'[Len(sent')].ok) =>
          (is_connected /\ PortOpen /\ ready_received)]_vars

\* ---- C38 ---------------------------------------------------------------
\* C38: a poll that finds the port open and no bytes waiting resets the
\* Reader's consecutive-error counter.
C38_IdlePollResetsCounter ==
    [][\A r \in Readers : ReaderIdle(r) => consecutive_errors'[r] = 0]_vars

\* ---- C39 ---------------------------------------------------------------
\* the lines one read of all the bytes received so far hands on
WholeRead == SplitLines(Decode(rx_bytes)).lines

\* C39: the lines the Reader hands to the Dispatcher depend only on the bytes
\* received, not on how they were split across reads: they are the lines that
\* one read of the whole stream hands on.
C39_ChunkingIndependent == rx_lines = WholeRead

TypeOK ==
    /\ port \in {NoHandle} \cup Handles
    /\ open \subseteq Handles
    /\ is_connected \in BOOLEAN
    /\ \A r \in Readers : consecutive_errors[r] \in 0..max_errors

====
